---- MODULE Spec2Model ----
(***************************************************************************)
(* Birthday bot (src/main.py): BirthdayBot and the FastAPI endpoint.       *)
(*                                                                         *)
(* Time is counted in minutes since the start of a non-leap year, in UTC.  *)
(* Only month and day of a date are ever read by the program, so the year  *)
(* is left out and instants wrap at the end of the year.  Asia/Dhaka is    *)
(* taken at its present fixed offset of +06:00.                            *)
(*                                                                         *)
(* A date text is modelled by the fields isoparse reads out of it; a name  *)
(* is a sequence of characters, so that strip() is computed.               *)
(***************************************************************************)
EXTENDS Integers, Sequences, FiniteSets, TLC

VARIABLES
  hostTZ,     \* UTC offset (minutes) of the local zone of the host process
  now,        \* the wall clock, as an instant
  elapsed,    \* minutes the clock has advanced since the start
  sheet,      \* the list of records the remote endpoint serves
  lastCall,   \* what the most recent handler invocation did
  caller,     \* a direct caller of send_monthly_birthday_list, between its steps
  req,        \* inbound HTTP requests: position in get_date / run_all
  threads,    \* scheduler threads started by run_continuously
  jobs,       \* the jobs of the process-wide default scheduler
  schedRuns   \* handler runs made by the scheduler: their number by <<handler, local day>>

vars == <<hostTZ, now, elapsed, sheet, lastCall, caller, req, threads, jobs, schedRuns>>

----------------------------------------------------------------------------
(* Bounds *)

MaxLen == 2          \* records in the served list
MaxElapsed == 1      \* minutes of clock advance explored by the handler runs
MaxRequests == 2     \* inbound requests
MaxSchedElapsed == 1 \* minutes of clock advance explored with the scheduler
MaxRunsCounted == 2  \* scheduled runs of one handler on one day are counted up to this

(* Program constants *)

DhakaOffset == 360   \* pytz.timezone("Asia/Dhaka"), +06:00
MESSAGE_DELAY == 1   \* seconds between messages
PollInterval == 1    \* time.sleep(60): one minute between run_pending calls
DailyAt == 1         \* "00:01", minutes after local midnight
MonthlyAt == 422     \* "07:02", minutes after local midnight

DayMinutes == 24 * 60
YearMinutes == 365 * DayMinutes

----------------------------------------------------------------------------
(* Calendar arithmetic of datetime *)

DaysInMonth == <<31, 28, 31, 30, 31, 30, 31, 31, 30, 31, 30, 31>>

\* The days of the year before the first of month m.
DaysBeforeMonth == <<0, 31, 59, 90, 120, 151, 181, 212, 243, 273, 304, 334>>
DaysBefore(m) == DaysBeforeMonth[m]

\* The instant of a wall-clock reading mon-day hr:mi in a zone off minutes east of UTC.
InstantOf(mon, day, hr, mi, off) ==
  ((DaysBefore(mon) + day - 1) * DayMinutes + hr * 60 + mi - off) % YearMinutes

\* datetime.astimezone(zone) followed by .month and .day.
LocalMinutes(inst, off) == (inst + off) % YearMinutes
DayOfYear(inst, off) == LocalMinutes(inst, off) \div DayMinutes
MonthOf(inst, off) ==
  LET doy == DayOfYear(inst, off)
  IN CHOOSE m \in 1..12 : DaysBefore(m) <= doy /\ doy < DaysBefore(m) + DaysInMonth[m]
DayOf(inst, off) == DayOfYear(inst, off) - DaysBefore(MonthOf(inst, off)) + 1

\* strftime('%m-%d'): month and day as a pair.
MonthDay(inst, off) == <<MonthOf(inst, off), DayOf(inst, off)>>

----------------------------------------------------------------------------
(* Text handling *)

Whitespace == {" "}

RECURSIVE LStrip(_)
LStrip(s) == IF s # <<>> /\ Head(s) \in Whitespace THEN LStrip(Tail(s)) ELSE s

RECURSIVE RStrip(_)
RStrip(s) ==
  IF s # <<>> /\ s[Len(s)] \in Whitespace THEN RStrip(SubSeq(s, 1, Len(s) - 1)) ELSE s

\* str.strip()
Strip(s) == RStrip(LStrip(s))

(* The birthday field.  kind: "empty" (no such key, '' or white space      *)
(* only), "bad" (text that is no ISO-8601 date), "iso".  An "iso" text     *)
(* reads mon-day T hr:00, with a UTC offset off when aware is TRUE.        *)
DateText(kind, mon, day, hr, aware, off) ==
  [kind |-> kind, mon |-> mon, day |-> day, hr |-> hr, aware |-> aware, off |-> off]

\* raw_birthday after strip(): empty or not
DateIsEmpty(d) == d.kind = "empty"

\* parser.isoparse raises ValueError on text that is no ISO-8601 date
IsoParses(d) ==
  /\ d.kind = "iso"
  /\ d.mon \in 1..12
  /\ d.day \in 1..DaysInMonth[d.mon]
  /\ d.hr \in 0..23

\* parser.isoparse(raw).astimezone(TIMEZONE): a text without offset is read
\* by astimezone as local time of the host.
ParsedInstant(d, host) ==
  InstantOf(d.mon, d.day, d.hr, 0, IF d.aware THEN d.off ELSE host)

----------------------------------------------------------------------------
(* Records, events and the source *)

Rec(name, birthday) == [name |-> name, birthday |-> birthday]

\* What the program does to the outside, in order.  t: "send" (a call of
\* bot.send_message), "sleep" (time.sleep), "error" (logger.error), "info"
\* (logger.info).  kind of a send: "birthday", "digest" (the formatted list),
\* "none" (the fixed no-birthdays text).  header: the month named in the first
\* line of a digest; for a sleep, its seconds.
Event(t, kind, name, ok, header, entries) ==
  [t |-> t, kind |-> kind, name |-> name, ok |-> ok, header |-> header, entries |-> entries]

BirthdaySend(name, ok) == Event("send", "birthday", name, ok, 0, <<>>)
SleepEvent == Event("sleep", "", <<>>, TRUE, MESSAGE_DELAY, <<>>)
\* logger.error: kind "send" (a send_message call raised) or "parse" (isoparse raised)
ErrorEvent(kind, name) == Event("error", kind, name, FALSE, 0, <<>>)

\* logger.info("No birthdays today.")
NoBirthdaysLog == Event("info", "none today", <<>>, TRUE, 0, <<>>)

\* requests.get(...) / response.json(): the list, or an exception
FetchOutcomes == {"ok", "ConnectionError", "JSONDecodeError"}

fetch_birthdays(served, outcome) ==
  [raised |-> IF outcome = "ok" THEN "none" ELSE outcome,
   value |-> IF outcome = "ok" THEN served ELSE <<>>]

----------------------------------------------------------------------------
(* check_daily_birthdays *)

\* The loop of check_daily_birthdays from record i on.  fails: the indices of
\* the records whose send_message call raises.
RECURSIVE DailyLoop_StopOnFail(_, _, _, _, _)
DailyLoop_StopOnFail(birthdays, i, today, host, fails) ==
  IF i > Len(birthdays) THEN <<>>
  ELSE
    LET b == birthdays[i]
        name == Strip(b.name)
        rest == DailyLoop_StopOnFail(birthdays, i + 1, today, host, fails)
    IN IF name = <<>> \/ DateIsEmpty(b.birthday) THEN rest
       ELSE IF ~IsoParses(b.birthday) THEN <<ErrorEvent("parse", name)>> \o rest
       ELSE IF MonthDay(ParsedInstant(b.birthday, host), DhakaOffset) = today
         THEN IF i \in fails
                THEN <<BirthdaySend(name, FALSE), ErrorEvent("send", name)>>
                ELSE <<BirthdaySend(name, TRUE), SleepEvent>> \o rest
         ELSE rest

RECURSIVE DailyLoop(_, _, _, _, _)
DailyLoop(birthdays, i, today, host, fails) ==
  IF i > Len(birthdays) THEN <<>>
  ELSE
    LET b == birthdays[i]
        name == Strip(b.name)
        rest == DailyLoop(birthdays, i + 1, today, host, fails)
    IN IF name = <<>> \/ DateIsEmpty(b.birthday) THEN rest
       ELSE IF ~IsoParses(b.birthday) THEN <<ErrorEvent("parse", name)>> \o rest
       ELSE IF MonthDay(ParsedInstant(b.birthday, host), DhakaOffset) = today
         THEN IF i \in fails
                THEN <<BirthdaySend(name, FALSE), ErrorEvent("send", name)>> \o rest
                ELSE <<BirthdaySend(name, TRUE), SleepEvent>> \o rest
         ELSE rest

\* The record of one handler invocation.
Call(op, raised, today, month1, month2, list, events) ==
  [op |-> op, raised |-> raised, today |-> today, month1 |-> month1,
   month2 |-> month2, list |-> list, events |-> events]

NoCall == Call("none", "none", <<0, 0>>, 0, 0, <<>>, <<>>)

\* check_daily_birthdays(): today is read once, then the fetch, then the loop.
\* An exception of the fetch leaves the method.  found is set by a send that
\* returned; without one the method logs that there are no birthdays today.
check_daily_birthdays(served, host, clock, outcome, fails) ==
  LET today == MonthDay(clock, DhakaOffset)
      got == fetch_birthdays(served, outcome)
      done == DailyLoop(got.value, 1, today, host, fails)
      found == \E p \in 1..Len(done) : done[p].t = "send" /\ done[p].ok
  IN IF got.raised # "none"
       THEN Call("daily", got.raised, today, 0, 0, <<>>, <<>>)
       ELSE Call("daily", "none", today, 0, 0, <<>>,
                 IF found THEN done ELSE Append(done, NoBirthdaysLog))

----------------------------------------------------------------------------
(* get_monthly_birthdays *)

Entry(name, day, month) == [name |-> name, day |-> day, month |-> month]

\* The loop of get_monthly_birthdays from record i on (its log lines left out).
RECURSIVE MonthlyLoop(_, _, _, _)
MonthlyLoop(birthdays, i, current_month, host) ==
  IF i > Len(birthdays) THEN <<>>
  ELSE
    LET b == birthdays[i]
        name == Strip(b.name)
        rest == MonthlyLoop(birthdays, i + 1, current_month, host)
    IN IF name = <<>> \/ DateIsEmpty(b.birthday) THEN rest
       ELSE IF ~IsoParses(b.birthday) THEN rest
       ELSE
         LET dt == ParsedInstant(b.birthday, host)
         IN IF MonthOf(dt, DhakaOffset) = current_month
              THEN <<Entry(name, DayOf(dt, DhakaOffset), MonthOf(dt, DhakaOffset))>> \o rest
              ELSE rest

\* list.sort(key=day): a stable sort.  Insert e after every entry whose day
\* is not larger.
RECURSIVE InsertByDay(_, _)
InsertByDay(sorted, e) ==
  IF sorted = <<>> THEN <<e>>
  ELSE IF Head(sorted).day <= e.day
         THEN <<Head(sorted)>> \o InsertByDay(Tail(sorted), e)
         ELSE <<e>> \o sorted

RECURSIVE SortByDay(_)
SortByDay(list) ==
  IF list = <<>> THEN <<>>
  ELSE InsertByDay(SortByDay(SubSeq(list, 1, Len(list) - 1)), list[Len(list)])

get_monthly_birthdays(served, host, clock, outcome) ==
  LET current_month == MonthOf(clock, DhakaOffset)
      got == fetch_birthdays(served, outcome)
  IN [raised |-> got.raised,
      month |-> current_month,
      list |-> IF got.raised # "none" THEN <<>>
               ELSE SortByDay(MonthlyLoop(got.value, 1, current_month, host))]

----------------------------------------------------------------------------
(* send_monthly_birthday_list, after its call of get_monthly_birthdays *)

DigestSend_SkipEmpty(monthly_birthdays, current_month, ok) ==
  IF monthly_birthdays = <<>>
    THEN <<>>
    ELSE <<Event("send", "digest", <<>>, ok, current_month, monthly_birthdays)>>
         \o (IF ok THEN <<>> ELSE <<ErrorEvent("send", <<>>)>>)

\* The message is built from the list and a second reading of the month, and
\* sent once; a failure of the send is logged.
DigestSend(monthly_birthdays, current_month, ok) ==
  (IF monthly_birthdays = <<>>
     THEN <<Event("send", "none", <<>>, ok, 0, <<>>)>>
     ELSE <<Event("send", "digest", <<>>, ok, current_month, monthly_birthdays)>>)
  \o (IF ok THEN <<>> ELSE <<ErrorEvent("send", <<>>)>>)

\* The whole of send_monthly_birthday_list with both clock readings given.
send_monthly_birthday_list(served, host, clock1, clock2, outcome, ok) ==
  LET got == get_monthly_birthdays(served, host, clock1, outcome)
      month2 == MonthOf(clock2, DhakaOffset)
  IN IF got.raised # "none"
       THEN Call("digest", got.raised, <<0, 0>>, got.month, 0, <<>>, <<>>)
       ELSE Call("digest", "none", <<0, 0>>, got.month, month2, got.list,
                 DigestSend(got.list, month2, ok))

----------------------------------------------------------------------------
(* The inputs explored *)

\* Local zones of the host: UTC, Asia/Dhaka, Asia/Tokyo.
HostOffsets == {0, DhakaOffset, 540}

EmptyDate == DateText("empty", 0, 0, 0, FALSE, 0)
NaiveDate(mon, day) == DateText("iso", mon, day, 0, FALSE, 0)

RecAlice == Rec(<<"A">>, NaiveDate(3, 5))                       \* "2020-03-05"
RecBob == Rec(<<" ", "B", " ">>, NaiveDate(3, 1))               \* "2020-03-01"
RecCarl == Rec(<<"C">>, DateText("bad", 0, 0, 0, FALSE, 0))    \* "not-a-date"
RecDora == Rec(<<"D">>, DateText("iso", 3, 4, 20, TRUE, 0))    \* "2020-03-04T20:00:00Z"
RecNoName == Rec(<<" ">>, NaiveDate(3, 5))
RecNoDate == Rec(<<"F">>, EmptyDate)

RecordPool == {RecAlice, RecBob, RecCarl, RecDora, RecNoName, RecNoDate}

SeqsUpTo(S, n) == UNION {[1..k -> S] : k \in 0..n}

\* One minute before midnight in Dhaka, on 5 March and on 31 March.
HandlerStarts ==
  {InstantOf(3, 5, 23, 59, DhakaOffset), InstantOf(3, 31, 23, 59, DhakaOffset)}

----------------------------------------------------------------------------
(* State *)

Idle == [pc |-> "idle", clock1 |-> 0]

NewReq == [pc |-> "new", response |-> "none", failed |-> FALSE]

----------------------------------------------------------------------------
(* The handlers called directly, one at a time *)

InitHandlers ==
  /\ hostTZ \in HostOffsets
  /\ now \in HandlerStarts
  /\ elapsed = 0
  /\ sheet \in SeqsUpTo(RecordPool, MaxLen)
  /\ lastCall = NoCall
  /\ caller = Idle
  /\ req = [r \in 1..MaxRequests |-> NewReq]
  /\ threads = <<>>
  /\ jobs = <<>>
  /\ schedRuns = << >>

\* The clock advances by a minute.
Tick ==
  /\ elapsed < MaxElapsed
  /\ now' = (now + 1) % YearMinutes
  /\ elapsed' = elapsed + 1
  /\ UNCHANGED <<hostTZ, sheet, lastCall, caller, req, threads, jobs, schedRuns>>

\* A call of check_daily_birthdays().
CheckDaily ==
  /\ caller.pc = "idle"
  /\ \E outcome \in FetchOutcomes :
     \E fails \in (IF outcome = "ok" THEN SUBSET (1..Len(sheet)) ELSE {{}}) :
       lastCall' = check_daily_birthdays(sheet, hostTZ, now, outcome, fails)
  /\ UNCHANGED <<hostTZ, now, elapsed, sheet, caller, req, threads, jobs, schedRuns>>

\* send_monthly_birthday_list() up to the return of get_monthly_birthdays():
\* the month is read and the list fetched and filtered.
SendMonthlyGet ==
  /\ caller.pc = "idle"
  /\ \E outcome \in FetchOutcomes :
       IF outcome = "ok"
         THEN /\ caller' = [pc |-> "got", clock1 |-> now]
              /\ UNCHANGED lastCall
         ELSE /\ lastCall' = send_monthly_birthday_list(sheet, hostTZ, now, now, outcome, TRUE)
              /\ UNCHANGED caller
  /\ UNCHANGED <<hostTZ, now, elapsed, sheet, req, threads, jobs, schedRuns>>

\* The rest of send_monthly_birthday_list(): the month is read again, the
\* message built and sent.
SendMonthlySend ==
  /\ caller.pc = "got"
  /\ \E ok \in BOOLEAN :
       lastCall' = send_monthly_birthday_list(sheet, hostTZ, caller.clock1, now, "ok", ok)
  /\ caller' = Idle
  /\ UNCHANGED <<hostTZ, now, elapsed, sheet, req, threads, jobs, schedRuns>>

NextHandlers == Tick \/ CheckDaily \/ SendMonthlyGet \/ SendMonthlySend

SpecHandlers == InitHandlers /\ [][NextHandlers]_vars

----------------------------------------------------------------------------
(* The service: get_date, run_all and the scheduler threads *)

\* Minutes after local midnight on the host, as the schedule library reads
\* datetime.now().
LocalTimeOfDay(clock, host) == LocalMinutes(clock, host) % DayMinutes
LocalDay(clock, host) == DayOfYear(clock, host)

\* every().day.at(t): the first time after the present clock that reads t
\* on the host, as a value of elapsed.
NextRunAt(at, clock, host, e) ==
  LET wait == (at - LocalTimeOfDay(clock, host)) % DayMinutes
  IN e + (IF wait = 0 THEN DayMinutes ELSE wait)

Job(fn, next_run) == [fn |-> fn, next_run |-> next_run]

\* A scheduler thread: "starting" (not yet in its loop), "ready" (about to call
\* run_pending), "sleeping" (in time.sleep(60)) or "crashed" (ended by an
\* exception).
ThreadStatus == {"starting", "ready", "sleeping", "crashed"}

Running(status) == status \in {"starting", "ready", "sleeping"}

\* On 5 March, host time: midnight, a minute before the daily check is due,
\* and 07:01, a minute before the monthly list is due.
SchedStarts(host) == {InstantOf(3, 5, 0, 0, host), InstantOf(3, 5, 7, 1, host)}

SchedSheet == <<RecAlice, RecCarl>>

\* The runs counted so far of handler fn on local day d.
RunsOn(runs, fn, d) == IF <<fn, d>> \in DOMAIN runs THEN runs[<<fn, d>>] ELSE 0

\* The scheduler reads the clock in host time only and the starts are given
\* in host time, so the service is explored on one host zone, UTC.
InitSched ==
  /\ hostTZ = 0
  /\ now \in SchedStarts(hostTZ)
  /\ elapsed = 0
  /\ sheet = SchedSheet
  /\ lastCall = NoCall
  /\ caller = Idle
  /\ req = [r \in 1..MaxRequests |-> NewReq]
  /\ threads = <<>>
  /\ jobs = <<>>
  /\ schedRuns = << >>

\* The clock advances by a minute, which ends the sleep of the sleeping threads.
SchedTick ==
  /\ elapsed < MaxSchedElapsed
  /\ now' = (now + PollInterval) % YearMinutes
  /\ elapsed' = elapsed + PollInterval
  /\ threads' = [t \in 1..Len(threads) |->
                  IF threads[t] = "sleeping" THEN "ready" ELSE threads[t]]
  /\ UNCHANGED <<hostTZ, sheet, lastCall, caller, req, jobs, schedRuns>>

\* The except clauses of run_all: KeyboardInterrupt and every Exception.
ExceptionClasses == {"ConnectionError", "JSONDecodeError"}

RunAllCatches_OnlyInterrupt(exc) == exc = "KeyboardInterrupt"

RunAllCatches(exc) == exc = "KeyboardInterrupt" \/ exc \in ExceptionClasses

\* Where run_all goes when a statement of its try block raises exc: to its
\* end when the exception is caught, out of get_date when it is not.
AfterRaise(r, exc) ==
  IF RunAllCatches(exc)
    THEN [req EXCEPT ![r].pc = "return", ![r].failed = TRUE]
    ELSE [req EXCEPT ![r].pc = "done", ![r].failed = TRUE, ![r].response = "error"]

\* run_continuously(): a daemon thread is started on run_scheduled_job.
run_continuously(ths) == Append(ths, "starting")

\* GET / arrives and get_date calls run_all(): the daily check, the monthly
\* list, then run_continuously(), all inside one try block.  Requests are
\* numbered in the order they arrive.
RunAll(r) ==
  /\ req[r].pc = "new"
  /\ \A q \in 1..(r - 1) : req[q].pc # "new"
  /\ \E o1 \in FetchOutcomes :
     \E fails \in (IF o1 = "ok" THEN SUBSET (1..Len(sheet)) ELSE {{}}) :
     \E o2 \in (IF o1 = "ok" THEN FetchOutcomes ELSE {"ok"}) :
     \E ok \in (IF o1 = "ok" /\ o2 = "ok" THEN BOOLEAN ELSE {TRUE}) :
       LET c1 == check_daily_birthdays(sheet, hostTZ, now, o1, fails)
           c2 == send_monthly_birthday_list(sheet, hostTZ, now, now, o2, ok)
       IN IF c1.raised # "none"
            THEN /\ lastCall' = c1
                 /\ req' = AfterRaise(r, c1.raised)
                 /\ UNCHANGED threads
            ELSE IF c2.raised # "none"
              THEN /\ lastCall' = c2
                   /\ req' = AfterRaise(r, c2.raised)
                   /\ UNCHANGED threads
              ELSE /\ lastCall' = c2
                   /\ req' = [req EXCEPT ![r].pc = "return"]
                   /\ threads' = run_continuously(threads)
  /\ UNCHANGED <<hostTZ, now, elapsed, sheet, caller, jobs, schedRuns>>

\* get_date: return {"msg": "success"}
Respond(r) ==
  /\ req[r].pc = "return"
  /\ req' = [req EXCEPT ![r].pc = "done", ![r].response = "success"]
  /\ UNCHANGED <<hostTZ, now, elapsed, sheet, lastCall, caller, threads, jobs, schedRuns>>

\* run_scheduled_job up to its loop: the two jobs are added to the default
\* scheduler.
RegisterJobs(t) ==
  /\ t \in DOMAIN threads
  /\ threads[t] = "starting"
  /\ jobs' = jobs \o <<Job("daily", NextRunAt(DailyAt, now, hostTZ, elapsed)),
                       Job("monthly", NextRunAt(MonthlyAt, now, hostTZ, elapsed))>>
  /\ threads' = [threads EXCEPT ![t] = "ready"]
  /\ UNCHANGED <<hostTZ, now, elapsed, sheet, lastCall, caller, req, schedRuns>>

\* The due jobs in the order run_pending runs them: by next_run, equal ones in
\* the order they were added.
DueOrder(js, e) ==
  LET due == {i \in 1..Len(js) : js[i].next_run <= e}
      before(j, i) == js[j].next_run < js[i].next_run
                      \/ (js[j].next_run = js[i].next_run /\ j < i)
  IN [k \in 1..Cardinality(due) |->
        CHOOSE i \in due : Cardinality({j \in due : before(j, i)}) = k - 1]

\* The handler a job runs.
RunHandler(fn, outcome, ok) ==
  IF fn = "daily"
    THEN check_daily_birthdays(sheet, hostTZ, now, outcome,
                               IF ok THEN {} ELSE 1..Len(sheet))
    ELSE send_monthly_birthday_list(sheet, hostTZ, now, now, outcome, ok)

\* schedule.run_pending(): the due jobs run in order.  firstFail = 0: every
\* handler returns.  Otherwise the first firstFail-1 handlers return and
\* handler number firstFail raises exc, which leaves run_pending at once.  The
\* job of a handler that returned is scheduled anew; the job of the one that
\* raised and the jobs not reached stay as they were.
RunPending(order, firstFail, exc, ok) ==
  LET started == IF firstFail = 0 THEN Len(order) ELSE firstFail
      returned == IF firstFail = 0 THEN Len(order) ELSE firstFail - 1
      today == LocalDay(now, hostTZ)
      count(fn) == Cardinality({k \in 1..started : jobs[order[k]].fn = fn})
      keys == DOMAIN schedRuns \cup {<<jobs[order[k]].fn, today>> : k \in 1..started}
      total(key) == RunsOn(schedRuns, key[1], key[2])
                    + (IF key[2] = today THEN count(key[1]) ELSE 0)
  IN [jobs |-> [i \in 1..Len(jobs) |->
                  IF \E k \in 1..returned : order[k] = i
                    THEN Job(jobs[i].fn,
                             NextRunAt(IF jobs[i].fn = "daily" THEN DailyAt ELSE MonthlyAt,
                                       now, hostTZ, elapsed))
                    ELSE jobs[i]],
      runs |-> [key \in keys |->
                  IF total(key) < MaxRunsCounted THEN total(key) ELSE MaxRunsCounted],
      last |-> IF started = 0 THEN lastCall
               ELSE RunHandler(jobs[order[started]].fn,
                               IF firstFail = 0 THEN "ok" ELSE exc, ok),
      raised |-> firstFail # 0]

\* Whether an exception out of run_pending ends run_scheduled_job: the loop
\* has no handler for it.
PollCrashes(raised) == raised

\* One turn of the loop of run_scheduled_job: run_pending(), then sleep(60).
Poll(t) ==
  /\ t \in DOMAIN threads
  /\ threads[t] = "ready"
  /\ LET order == DueOrder(jobs, elapsed)
     IN \E firstFail \in 0..Len(order) :
        \E ok \in (IF order = <<>> THEN {TRUE} ELSE BOOLEAN) :
        \E exc \in (IF firstFail = 0 THEN {"ok"} ELSE ExceptionClasses) :
          LET st == RunPending(order, firstFail, exc, ok)
          IN /\ jobs' = st.jobs
             /\ schedRuns' = st.runs
             /\ lastCall' = st.last
             /\ threads' = [threads EXCEPT ![t] =
                  IF PollCrashes(st.raised) THEN "crashed" ELSE "sleeping"]
  /\ UNCHANGED <<hostTZ, now, elapsed, sheet, caller, req>>

Next ==
  \/ SchedTick
  \/ \E r \in 1..MaxRequests : RunAll(r) \/ Respond(r)
  \/ \E t \in 1..MaxRequests : RegisterJobs(t) \/ Poll(t)

Init == InitSched

Spec == Init /\ [][Next]_vars

TypeOK ==
  /\ hostTZ \in HostOffsets
  /\ now \in 0..(YearMinutes - 1)
  /\ elapsed \in Nat
  /\ \A i \in 1..Len(sheet) : sheet[i] \in RecordPool
  /\ caller.pc \in {"idle", "got"}
  /\ lastCall.op \in {"none", "daily", "digest"}
  /\ lastCall.raised \in {"none"} \cup FetchOutcomes
  /\ \A r \in 1..MaxRequests :
       /\ req[r].pc \in {"new", "return", "done"}
       /\ req[r].response \in {"none", "success", "error"}
  /\ \A t \in 1..Len(threads) :
       threads[t] \in ThreadStatus
  /\ \A i \in 1..Len(jobs) : jobs[i].fn \in {"daily", "monthly"}

----------------------------------------------------------------------------
(* What the claims speak of *)

Sends(events) == SelectSeq(events, LAMBDA e : e.t = "send")
SendNames(events) == [k \in 1..Len(Sends(events)) |-> Sends(events)[k].name]

\* A record the normalisation keeps: a name and a date text that parses.
Usable(b) == Strip(b.name) # <<>> /\ ~DateIsEmpty(b.birthday) /\ IsoParses(b.birthday)

\* The instant of a date text with month and day taken in the canonical
\* zone whatever the host: a text without offset reads as a canonical-zone time.
CanonicalInstant(d) == ParsedInstant(d, DhakaOffset)

NamesOf(records) == [k \in 1..Len(records) |-> Strip(records[k].name)]

\* The records the daily check of the host selects, in source order.
HostMatches(records, today, host) ==
  SelectSeq(records, LAMBDA b :
    Usable(b) /\ MonthDay(ParsedInstant(b.birthday, host), DhakaOffset) = today)

\* The records whose canonical month-day is today's, in source order.
CanonicalMatches(records, today) ==
  SelectSeq(records, LAMBDA b :
    Usable(b) /\ MonthDay(CanonicalInstant(b.birthday), DhakaOffset) = today)

DailyDone == lastCall.op = "daily" /\ lastCall.raised = "none"
DigestDone == lastCall.op = "digest" /\ lastCall.raised = "none"

\* The digest list a month calls for, read off the source by rank: position k
\* holds the qualifying record with k-1 qualifying records before it in the
\* order by day, then by source position.
ExpectedDigest(records, m) ==
  LET inst(i) == CanonicalInstant(records[i].birthday)
      day(i) == DayOf(inst(i), DhakaOffset)
      qual == {i \in 1..Len(records) :
                 Usable(records[i]) /\ MonthOf(inst(i), DhakaOffset) = m}
      before(j, i) == day(j) < day(i) \/ (day(j) = day(i) /\ j < i)
      at(k) == CHOOSE i \in qual : Cardinality({j \in qual : before(j, i)}) = k - 1
  IN [k \in 1..Cardinality(qual) |-> Entry(Strip(records[at(k)].name), day(at(k)), m)]

\* C1: a daily check whose fetch succeeded made one send for each record with a
\* name and a parseable date whose month-day, in the canonical zone, is
\* today's, addressed to its name, and no other send.
C1_DailySendsCanonicalMatches ==
  DailyDone => SendNames(lastCall.events) = NamesOf(CanonicalMatches(sheet, lastCall.today))

\* C2: the digest list holds the records with a name and a parseable date of
\* the current month, by day ascending, equal days in source order.
C2_DigestListIsMonthSorted ==
  DigestDone =>
    LET expected == ExpectedDigest(sheet, lastCall.month1)
    IN /\ Len(lastCall.list) = Len(expected)
       /\ \A k \in 1..Len(expected) : lastCall.list[k].name = expected[k].name

\* C3 as stated: every invocation of the monthly digest makes one send.
C3_DigestAlwaysOneSend ==
  lastCall.op = "digest" => Len(Sends(lastCall.events)) = 1

\* C3 as amended: a monthly digest whose fetch succeeded made exactly one send,
\* the formatted list when the list is not empty and the fixed text when it
\* is; one whose fetch raised made none.
C3_DigestOneSendWhenFetched ==
  lastCall.op = "digest" =>
    IF lastCall.raised = "none"
      THEN /\ Len(Sends(lastCall.events)) = 1
           /\ LET m == Sends(lastCall.events)[1]
              IN IF lastCall.list = <<>>
                   THEN m.kind = "none"
                   ELSE m.kind = "digest" /\ m.entries = lastCall.list
      ELSE lastCall.events = <<>>

C3_Witness ==
  /\ DigestDone
  /\ lastCall.list # <<>>
  /\ Len(Sends(lastCall.events)) = 1

\* C6: in a daily check the sends are those for the matching records, one
\* each and in order, whichever of them fail; each failed send is logged.
C6_SendAttemptedForEveryMatch ==
  DailyDone =>
    /\ SendNames(lastCall.events) = NamesOf(HostMatches(sheet, lastCall.today, hostTZ))
    /\ \A p \in 1..Len(lastCall.events) :
         (lastCall.events[p].t = "send" /\ ~lastCall.events[p].ok) =>
           /\ p < Len(lastCall.events)
           /\ lastCall.events[p + 1] = ErrorEvent("send", lastCall.events[p].name)

C6_Witness ==
  /\ DailyDone
  /\ Len(Sends(lastCall.events)) >= 2
  /\ ~Sends(lastCall.events)[1].ok

\* C8: the records the daily check and the digest select are those any other
\* host zone would select from the same source at the same instant.
C8_SelectionIndependentOfHost ==
  \A h \in HostOffsets :
    /\ DailyDone =>
         SendNames(lastCall.events) = NamesOf(HostMatches(sheet, lastCall.today, h))
    /\ DigestDone =>
         lastCall.list = SortByDay(MonthlyLoop(sheet, 1, lastCall.month1, h))

\* C9: between two consecutive sends of a daily check the delay is slept.
C9_DelayBetweenSends ==
  lastCall.op = "daily" =>
    \A p, q \in 1..Len(lastCall.events) :
      (/\ p < q
       /\ lastCall.events[p].t = "send"
       /\ lastCall.events[q].t = "send") =>
        \E r \in (p + 1)..(q - 1) : lastCall.events[r].t = "sleep"

\* C10: the month in the header of a digest is the month of each entry.
C10_HeaderMonthIsEntriesMonth ==
  \A p \in 1..Len(lastCall.events) :
    lastCall.events[p].kind = "digest" =>
      \A k \in 1..Len(lastCall.events[p].entries) :
        lastCall.events[p].entries[k].month = lastCall.events[p].header

\* C4: at most one scheduler thread has been started, each trigger is
\* registered at most once, and no handler made more than one scheduled run
\* on one day.
C4_OneLoopOneRegistration ==
  /\ Len(threads) <= 1
  /\ \A fn \in {"daily", "monthly"} :
       Cardinality({i \in 1..Len(jobs) : jobs[i].fn = fn}) <= 1
  /\ \A key \in DOMAIN schedRuns : schedRuns[key] <= 1

\* C5: no scheduler thread is ended by a failed fetch, and after a request
\* whose cycle had a failed fetch a scheduler thread is running.
C5_FetchFailureSkipsOnlyCycle ==
  /\ \A t \in 1..Len(threads) : threads[t] # "crashed"
  /\ \A r \in 1..MaxRequests :
       (req[r].pc \in {"return", "done"} /\ req[r].failed) =>
         \E t \in 1..Len(threads) : Running(threads[t])

\* C7: every answered request was answered with the success acknowledgment.
C7_AlwaysSuccess ==
  \A r \in 1..MaxRequests :
    /\ req[r].pc = "done" => req[r].response = "success"
    /\ req[r].response # "error"

C7_Witness ==
  \E r \in 1..MaxRequests :
    req[r].pc = "done" /\ req[r].failed /\ req[r].response = "success"

====
